---- MODULE Spec2Model ----
(***************************************************************************)
(* The lossy deb822 parser of src/src/lossy.rs: the stanza assembler       *)
(* Deb822::from_str walking the token vector of the lexer, the document    *)
(* model (Field, Paragraph, Deb822) and its Display serialization.         *)
(*                                                                         *)
(* Text is a sequence of one-character strings.  A token is a record       *)
(* [k |-> kind, t |-> text], as the (SyntaxKind, &str) pairs of the lexer. *)
(***************************************************************************)
EXTENDS Integers, Sequences, FiniteSets, TLC

VARIABLES lexed, pos, paragraphs, current_paragraph, pc, result, kt,
          shape, run, first, variant, text, para, op

parserVars == <<pos, paragraphs, current_paragraph, pc, result, kt>>
driverVars == <<lexed, shape, run, first, variant, text, para, op>>
vars == <<lexed, pos, paragraphs, current_paragraph, pc, result, kt,
          shape, run, first, variant, text, para, op>>

(***************************************************************************)
(* Bounds of the explored inputs.                                          *)
(***************************************************************************)
MaxRaw == 5
MaxFields == 2
MaxCont == 1
MaxBlank == 1

(***************************************************************************)
(* Tokens.                                                                 *)
(***************************************************************************)
Tok(k, t) == [k |-> k, t |-> t]

None == [k |-> "None", t |-> <<>>]

SyntaxKind == {"KEY", "COLON", "VALUE", "WHITESPACE", "INDENT", "NEWLINE",
               "COMMENT", "ERROR"}

NL == Tok("NEWLINE", <<"\n">>)
WS == Tok("WHITESPACE", <<" ">>)
IND == Tok("INDENT", <<" ">>)
COL == Tok("COLON", <<":">>)
CMT == Tok("COMMENT", <<"#", "c">>)

RawAlphabet == {Tok("KEY", <<"A">>), COL, Tok("VALUE", <<"x">>), WS, IND, NL,
                CMT, Tok("ERROR", <<"?">>)}

SeqsUpTo(S, n) == UNION {[1..m -> S] : m \in 0..n}

RawInputs == SeqsUpTo(RawAlphabet, MaxRaw)

(***************************************************************************)
(* Well-formed stanzas, described field by field: the key, whether a       *)
(* WHITESPACE follows the colon, the number of continuation lines and the  *)
(* number of bare NEWLINE tokens after the field (0: the next field is in  *)
(* the same stanza, or the input ends right after the field).  The keys    *)
(* of an input are all different or all the same; the WHITESPACE is on     *)
(* every field, on none, or on every other one.  The parser reads the key  *)
(* text and the WHITESPACE in different steps, so three combinations of    *)
(* the two patterns are explored.                                          *)
(***************************************************************************)
KeyChars == <<"A", "B", "C", "D">>

KeyPatterns == {"distinct", "same"}

KeyAt(p, i) == IF p = "same" THEN "A" ELSE KeyChars[((i - 1) % 4) + 1]

WsPatterns == {"none", "all", "mixed"}

WsAt(w, i) == IF w = "mixed" THEN i % 2 = 1 ELSE w = "all"

LineShape == [conts : 0..MaxCont, blank : 0..MaxBlank]

\* The key and whitespace patterns the inputs combine.
InputPatterns ==
    {pt \in KeyPatterns \X WsPatterns :
        pt \in {<<"distinct", "all">>, <<"same", "none">>, <<"distinct", "mixed">>}}

Shapes ==
    UNION {{[i \in 1..m |-> [key |-> KeyAt(pt[1], i), ws |-> WsAt(pt[2], i),
                             conts |-> ls[i].conts, blank |-> ls[i].blank]] :
                ls \in [1..m -> LineShape], pt \in InputPatterns} :
           m \in 1..MaxFields}

ContChars == <<"c", "d", "e", "f">>

ContText(j) == <<ContChars[((j - 1) % 4) + 1]>>

ContLines(n) ==
    [i \in 1..(3 * n) |->
        IF i % 3 = 1 THEN IND
        ELSE IF i % 3 = 2 THEN Tok("VALUE", ContText((i + 1) \div 3))
        ELSE NL]

FieldTokens(f) ==
    <<Tok("KEY", <<f.key>>), COL>>
    \o (IF f.ws THEN <<WS>> ELSE <<>>)
    \o <<Tok("VALUE", <<"v">>), NL>>
    \o ContLines(f.conts)
    \o [i \in 1..f.blank |-> NL]

RECURSIVE Flatten(_)
Flatten(sh) ==
    IF sh = <<>> THEN <<>> ELSE FieldTokens(Head(sh)) \o Flatten(Tail(sh))

(***************************************************************************)
(* Results of from_str: Result<Deb822, Error>, or the panic of a failed    *)
(* assertion.                                                              *)
(***************************************************************************)
Running == [tag |-> "Running"]
Ok(d) == [tag |-> "Ok", doc |-> d]
UnexpectedToken(k, t) == [tag |-> "Err", error |-> "UnexpectedToken", k |-> k, t |-> t]
UnexpectedEof == [tag |-> "Err", error |-> "UnexpectedEof"]
Panic == [tag |-> "Panic"]

Field(n, v) == [name |-> n, value |-> v]
Paragraph(fs) == [fields |-> fs]

(***************************************************************************)
(* Paragraph::get and Paragraph::insert.  get returns Option<&str>.        *)
(***************************************************************************)
Some(v) == [some |-> TRUE, v |-> v]
Absent == [some |-> FALSE]

RECURSIVE GetFrom(_, _)
GetFrom(fs, name) ==
    IF fs = <<>> THEN Absent
    ELSE IF Head(fs).name = name THEN Some(Head(fs).value)
    ELSE GetFrom(Tail(fs), name)

\* get returning the last field of the name instead of the first.
ParagraphGet_LastMatch(p, name) ==
    LET idx == {j \in 1..Len(p.fields) : p.fields[j].name = name}
    IN  IF idx = {} THEN Absent
        ELSE Some(p.fields[CHOOSE j \in idx : \A k \in idx : k <= j].value)

ParagraphGet(p, name) == GetFrom(p.fields, name)

ParagraphInsert(p, name, value) ==
    [p EXCEPT !.fields = Append(p.fields, Field(name, value))]

(***************************************************************************)
(* The peekable token cursor.                                              *)
(***************************************************************************)
Peek == IF pos < Len(lexed) THEN lexed[pos + 1] ELSE None

LastValue == current_paragraph[Len(current_paragraph)].value

SetLastValue(v) == [current_paragraph EXCEPT ![Len(current_paragraph)].value = v]

Fail(r) ==
    /\ result' = r
    /\ pc' = "done"
    /\ UNCHANGED <<pos, paragraphs, current_paragraph, kt>>

(***************************************************************************)
(* Top level of from_str: while let Some((k, t)) = tokens.next().          *)
(***************************************************************************)
TopError ==
    /\ pc = "top"
    /\ Peek.k \in {"INDENT", "COLON", "ERROR"}
    /\ result' = UnexpectedToken(Peek.k, Peek.t)
    /\ pc' = "done"
    /\ pos' = pos + 1
    /\ UNCHANGED <<paragraphs, current_paragraph, kt>>
    /\ UNCHANGED driverVars

TopWhitespace ==
    /\ pc = "top"
    /\ Peek.k = "WHITESPACE"
    /\ pos' = pos + 1
    /\ UNCHANGED <<paragraphs, current_paragraph, pc, result, kt>>
    /\ UNCHANGED driverVars

TopKey ==
    /\ pc = "top"
    /\ Peek.k = "KEY"
    /\ current_paragraph' = Append(current_paragraph, Field(Peek.t, <<>>))
    /\ kt' = Peek.t
    /\ pos' = pos + 1
    /\ pc' = "colon"
    /\ UNCHANGED <<paragraphs, result>>
    /\ UNCHANGED driverVars

\* TopValue with the VALUE arm ignoring the token as the WHITESPACE arm does.
TopValue_Ignored ==
    /\ pc = "top"
    /\ Peek.k = "VALUE"
    /\ pos' = pos + 1
    /\ UNCHANGED <<paragraphs, current_paragraph, pc, result, kt>>
    /\ UNCHANGED driverVars

TopValue ==
    /\ pc = "top"
    /\ Peek.k = "VALUE"
    /\ result' = UnexpectedToken(Peek.k, Peek.t)
    /\ pc' = "done"
    /\ pos' = pos + 1
    /\ UNCHANGED <<paragraphs, current_paragraph, kt>>
    /\ UNCHANGED driverVars

\* TopComment leaving the token loop at the comment instead of skipping its line.
TopComment_Breaks ==
    /\ pc = "top"
    /\ Peek.k = "COMMENT"
    /\ pos' = pos + 1
    /\ paragraphs' = IF current_paragraph # <<>>
                     THEN Append(paragraphs, Paragraph(current_paragraph))
                     ELSE paragraphs
    /\ result' = Ok(paragraphs')
    /\ pc' = "done"
    /\ UNCHANGED <<current_paragraph, kt>>
    /\ UNCHANGED driverVars

TopComment ==
    /\ pc = "top"
    /\ Peek.k = "COMMENT"
    /\ pos' = pos + 1
    /\ pc' = "comment"
    /\ UNCHANGED <<paragraphs, current_paragraph, result, kt>>
    /\ UNCHANGED driverVars

\* TopNewline closing the current paragraph even when it holds no field.
TopNewline_AlwaysCloses ==
    /\ pc = "top"
    /\ Peek.k = "NEWLINE"
    /\ pos' = pos + 1
    /\ paragraphs' = Append(paragraphs, Paragraph(current_paragraph))
    /\ current_paragraph' = <<>>
    /\ UNCHANGED <<pc, result, kt>>
    /\ UNCHANGED driverVars

TopNewline ==
    /\ pc = "top"
    /\ Peek.k = "NEWLINE"
    /\ pos' = pos + 1
    /\ IF current_paragraph # <<>>
       THEN /\ paragraphs' = Append(paragraphs, Paragraph(current_paragraph))
            /\ current_paragraph' = <<>>
       ELSE UNCHANGED <<paragraphs, current_paragraph>>
    /\ UNCHANGED <<pc, result, kt>>
    /\ UNCHANGED driverVars

\* TopEof without the final push of the open paragraph.
TopEof_DropsOpenParagraph ==
    /\ pc = "top"
    /\ Peek = None
    /\ result' = Ok(paragraphs)
    /\ pc' = "done"
    /\ UNCHANGED <<pos, paragraphs, current_paragraph, kt>>
    /\ UNCHANGED driverVars

TopEof ==
    /\ pc = "top"
    /\ Peek = None
    /\ paragraphs' = IF current_paragraph # <<>>
                     THEN Append(paragraphs, Paragraph(current_paragraph))
                     ELSE paragraphs
    /\ result' = Ok(paragraphs')
    /\ pc' = "done"
    /\ UNCHANGED <<pos, current_paragraph, kt>>
    /\ UNCHANGED driverVars

(***************************************************************************)
(* The top-level COMMENT arm: for (k, _) in tokens.by_ref().               *)
(***************************************************************************)
\* CommentSkip stopping in front of the NEWLINE instead of consuming it.
CommentSkip_LeavesNewline ==
    /\ pc = "comment"
    /\ IF Peek = None \/ Peek.k = "NEWLINE"
       THEN /\ pc' = "top"
            /\ UNCHANGED pos
       ELSE /\ pos' = pos + 1
            /\ UNCHANGED pc
    /\ UNCHANGED <<paragraphs, current_paragraph, result, kt>>
    /\ UNCHANGED driverVars

CommentSkip ==
    /\ pc = "comment"
    /\ IF Peek = None
       THEN /\ pc' = "top"
            /\ UNCHANGED pos
       ELSE /\ pos' = pos + 1
            /\ pc' = IF Peek.k = "NEWLINE" THEN "top" ELSE "comment"
    /\ UNCHANGED <<paragraphs, current_paragraph, result, kt>>
    /\ UNCHANGED driverVars

(***************************************************************************)
(* The KEY arm: the colon, the whitespace, the first value line.           *)
(***************************************************************************)
ExpectColon ==
    /\ pc = "colon"
    /\ IF Peek = None
       THEN Fail(UnexpectedEof)
       ELSE IF Peek.k = "COLON"
       THEN /\ pos' = pos + 1
            /\ pc' = "ws"
            /\ UNCHANGED <<paragraphs, current_paragraph, result, kt>>
       ELSE /\ result' = UnexpectedToken(Peek.k, Peek.t)
            /\ pc' = "done"
            /\ pos' = pos + 1
            /\ UNCHANGED <<paragraphs, current_paragraph, kt>>
    /\ UNCHANGED driverVars

SkipWhitespace ==
    /\ pc = "ws"
    /\ IF Peek.k = "WHITESPACE"
       THEN /\ pos' = pos + 1
            /\ UNCHANGED pc
       ELSE /\ pc' = "first"
            /\ UNCHANGED pos
    /\ UNCHANGED <<paragraphs, current_paragraph, result, kt>>
    /\ UNCHANGED driverVars

FirstLineValue ==
    /\ pc = "first"
    /\ Peek.k = "VALUE"
    /\ current_paragraph' = SetLastValue(Peek.t)
    /\ pos' = pos + 1
    /\ UNCHANGED <<paragraphs, pc, result, kt>>
    /\ UNCHANGED driverVars

FirstLineEnd ==
    /\ pc = "first"
    /\ Peek.k \in {"NEWLINE", "None"}
    /\ pos' = IF Peek = None THEN pos ELSE pos + 1
    /\ current_paragraph' = SetLastValue(Append(LastValue, "\n"))
    /\ pc' = "cont"
    /\ UNCHANGED <<paragraphs, result, kt>>
    /\ UNCHANGED driverVars

FirstLineError ==
    /\ pc = "first"
    /\ Peek.k \notin {"VALUE", "NEWLINE", "None"}
    /\ result' = UnexpectedToken(Peek.k, Peek.t)
    /\ pc' = "done"
    /\ pos' = pos + 1
    /\ UNCHANGED <<paragraphs, current_paragraph, kt>>
    /\ UNCHANGED driverVars

(***************************************************************************)
(* Continuation lines: while tokens.peek() is INDENT { loop { ... } }.     *)
(***************************************************************************)
\* ContinuationPeek keeping the text of the INDENT token in the value.
ContinuationPeek_KeepsIndent ==
    /\ pc = "cont"
    /\ IF Peek.k = "INDENT"
       THEN /\ pos' = pos + 1
            /\ pc' = "line"
            /\ current_paragraph' = SetLastValue(LastValue \o Peek.t)
       ELSE /\ pc' = "trim"
            /\ UNCHANGED <<pos, current_paragraph>>
    /\ UNCHANGED <<paragraphs, result, kt>>
    /\ UNCHANGED driverVars

ContinuationPeek ==
    /\ pc = "cont"
    /\ IF Peek.k = "INDENT"
       THEN /\ pos' = pos + 1
            /\ pc' = "line"
       ELSE /\ pc' = "trim"
            /\ UNCHANGED pos
    /\ UNCHANGED <<paragraphs, current_paragraph, result, kt>>
    /\ UNCHANGED driverVars

LineValue ==
    /\ pc = "line"
    /\ Peek.k = "VALUE"
    /\ current_paragraph' = SetLastValue(LastValue \o Peek.t)
    /\ pos' = pos + 1
    /\ UNCHANGED <<paragraphs, pc, result, kt>>
    /\ UNCHANGED driverVars

LineComment ==
    /\ pc = "line"
    /\ Peek.k = "COMMENT"
    /\ pos' = pos + 1
    /\ UNCHANGED <<paragraphs, current_paragraph, pc, result, kt>>
    /\ UNCHANGED driverVars

LineNewline ==
    /\ pc = "line"
    /\ Peek.k = "NEWLINE"
    /\ current_paragraph' = SetLastValue(LastValue \o Peek.t)
    /\ pos' = pos + 1
    /\ pc' = "cont"
    /\ UNCHANGED <<paragraphs, result, kt>>
    /\ UNCHANGED driverVars

LineBreak ==
    /\ pc = "line"
    /\ Peek.k \in {"KEY", "None"}
    /\ pc' = "cont"
    /\ UNCHANGED <<pos, paragraphs, current_paragraph, result, kt>>
    /\ UNCHANGED driverVars

LineError ==
    /\ pc = "line"
    /\ Peek.k \in {"WHITESPACE", "COLON", "INDENT", "ERROR"}
    /\ Fail(UnexpectedToken(Peek.k, kt))
    /\ UNCHANGED driverVars

(***************************************************************************)
(* assert_eq!(value.pop(), Some('\n')).                                    *)
(***************************************************************************)
TrimNewline ==
    /\ pc = "trim"
    /\ current_paragraph' =
           IF LastValue = <<>> THEN current_paragraph
           ELSE SetLastValue(SubSeq(LastValue, 1, Len(LastValue) - 1))
    /\ IF LastValue # <<>> /\ LastValue[Len(LastValue)] = "\n"
       THEN /\ pc' = "top"
            /\ UNCHANGED result
       ELSE /\ pc' = "done"
            /\ result' = Panic
    /\ UNCHANGED <<pos, paragraphs, kt>>
    /\ UNCHANGED driverVars

Parse ==
    \/ TopError \/ TopWhitespace \/ TopKey \/ TopValue \/ TopComment
    \/ TopNewline \/ TopEof \/ CommentSkip
    \/ ExpectColon \/ SkipWhitespace
    \/ FirstLineValue \/ FirstLineEnd \/ FirstLineError
    \/ ContinuationPeek
    \/ LineValue \/ LineComment \/ LineNewline \/ LineBreak \/ LineError
    \/ TrimNewline

(***************************************************************************)
(* Display for Field, Paragraph and Deb822.                                *)
(***************************************************************************)
FieldDisplay(f) == f.name \o <<":", " ">> \o f.value

RECURSIVE ParagraphDisplay(_)
ParagraphDisplay(fs) ==
    IF fs = <<>> THEN <<>>
    ELSE Head(fs).name \o <<":", " ">> \o Head(fs).value \o <<"\n">> \o <<"\n">>
         \o ParagraphDisplay(Tail(fs))

RECURSIVE Deb822Display(_, _)
Deb822Display(ps, i) ==
    IF i > Len(ps) THEN <<>>
    ELSE (IF i > 1 THEN <<"\n">> ELSE <<>>)
         \o ParagraphDisplay(ps[i].fields)
         \o Deb822Display(ps, i + 1)

ToText(d) == Deb822Display(d, 1)

(***************************************************************************)
(* The lexer: the line-oriented grammar of the tokenizer.                  *)
(***************************************************************************)
IsSpace(c) == c \in {" ", "\t"}

\* Number of characters before the first occurrence of c, Len(s) if none.
RECURSIVE IndexOf(_, _)
IndexOf(s, c) ==
    IF s = <<>> \/ Head(s) = c THEN 0 ELSE 1 + IndexOf(Tail(s), c)

RECURSIVE SpaceRun(_)
SpaceRun(s) ==
    IF s = <<>> \/ ~IsSpace(Head(s)) THEN 0 ELSE 1 + SpaceRun(Tail(s))

Drop(s, n) == SubSeq(s, n + 1, Len(s))

OptTok(k, t) == IF t = <<>> THEN <<>> ELSE <<Tok(k, t)>>

LexValuePart(s) ==
    OptTok("WHITESPACE", SubSeq(s, 1, SpaceRun(s)))
    \o OptTok("VALUE", Drop(s, SpaceRun(s)))

LexLine(l) ==
    IF l = <<>> THEN <<>>
    ELSE IF l[1] = "#" THEN <<Tok("COMMENT", l)>>
    ELSE IF IsSpace(l[1])
    THEN <<Tok("INDENT", SubSeq(l, 1, SpaceRun(l)))>>
         \o OptTok("VALUE", Drop(l, SpaceRun(l)))
    ELSE IF l[1] = ":" THEN <<Tok("ERROR", l)>>
    ELSE <<Tok("KEY", SubSeq(l, 1, IndexOf(l, ":")))>>
         \o (IF IndexOf(l, ":") < Len(l)
             THEN <<COL>> \o LexValuePart(Drop(l, IndexOf(l, ":") + 1))
             ELSE <<>>)

RECURSIVE Lex(_)
Lex(s) ==
    IF s = <<>> THEN <<>>
    ELSE IF IndexOf(s, "\n") < Len(s)
    THEN LexLine(SubSeq(s, 1, IndexOf(s, "\n"))) \o <<NL>>
         \o Lex(Drop(s, IndexOf(s, "\n") + 1))
    ELSE LexLine(s)

(***************************************************************************)
(* Drivers: a second parse of an input derived from the first one.         *)
(***************************************************************************)
NoFirst == [lexed |-> <<>>, result |-> Running]

NoOp == [kind |-> "none"]

Insert(s, i, ins) == SubSeq(s, 1, i) \o ins \o Drop(s, i)

LineStart(i) == i = 0 \/ lexed[i].k = "NEWLINE"

NextKind(i) == IF i < Len(lexed) THEN lexed[i + 1].k ELSE "None"

CommentInsertions(i) ==
    IF ~LineStart(i) THEN {}
    ELSE IF NextKind(i) = "INDENT"
    THEN {[v |-> "between", ins |-> <<CMT, NL>>],
          [v |-> "indented", ins |-> <<IND, CMT, NL>>]}
    ELSE {[v |-> "top", ins |-> <<CMT, NL>>]}
         \cup (IF i = Len(lexed) THEN {[v |-> "top_eof", ins |-> <<CMT>>]} ELSE {})

Restart(toks, v) ==
    /\ lexed' = toks
    /\ variant' = v
    /\ first' = [lexed |-> lexed, result |-> result]
    /\ run' = 2
    /\ pos' = 0
    /\ paragraphs' = <<>>
    /\ current_paragraph' = <<>>
    /\ pc' = "top"
    /\ result' = Running
    /\ kt' = <<>>
    /\ op = NoOp
    /\ UNCHANGED <<shape, para, op>>

ParseWithComment ==
    /\ run = 1
    /\ pc = "done"
    /\ shape # <<>>
    /\ \E i \in 0..Len(lexed) : \E c \in CommentInsertions(i) :
          Restart(Insert(lexed, i, c.ins), c.v)
    /\ UNCHANGED text

ParseSerialized ==
    /\ run = 1
    /\ pc = "done"
    /\ result.tag = "Ok"
    /\ text' = ToText(result.doc)
    /\ Restart(Lex(text'), "roundtrip")

(***************************************************************************)
(* The accessor layer: insert and get on a paragraph of the parsed         *)
(* document, get also on the paragraph after an insert.                    *)
(***************************************************************************)
AccessNames == {<<"A">>, <<"B">>, <<"a">>}

CallInsert ==
    /\ run = 1
    /\ pc = "done"
    /\ result.tag = "Ok"
    /\ op = NoOp
    /\ \E i \in 1..Len(result.doc) : \E n \in AccessNames :
          /\ para' = ParagraphInsert(result.doc[i], n, <<"w">>)
          /\ op' = [kind |-> "insert", before |-> result.doc[i],
                    name |-> n, value |-> <<"w">>]
    /\ UNCHANGED <<lexed, shape, run, first, variant, text>>
    /\ UNCHANGED parserVars

CallGet ==
    /\ run = 1
    /\ pc = "done"
    /\ result.tag = "Ok"
    /\ op.kind \in {"none", "insert"}
    /\ \E p \in (IF op.kind = "insert" THEN {para}
                  ELSE {result.doc[i] : i \in 1..Len(result.doc)}) :
       \E n \in AccessNames :
          /\ para' = p
          /\ op' = [kind |-> "get", on |-> p, name |-> n,
                    ret |-> ParagraphGet(p, n)]
    /\ UNCHANGED <<lexed, shape, run, first, variant, text>>
    /\ UNCHANGED parserVars

Init ==
    /\ \/ /\ shape = <<>>
          /\ lexed \in RawInputs
       \/ /\ shape \in Shapes
          /\ lexed = Flatten(shape)
    /\ pos = 0
    /\ paragraphs = <<>>
    /\ current_paragraph = <<>>
    /\ pc = "top"
    /\ result = Running
    /\ kt = <<>>
    /\ run = 1
    /\ first = NoFirst
    /\ variant = "none"
    /\ text = <<>>
    /\ para = Paragraph(<<>>)
    /\ op = NoOp

Next == Parse \/ ParseWithComment \/ ParseSerialized \/ CallInsert \/ CallGet

Spec == Init /\ [][Next]_vars

(***************************************************************************)
(* Properties.                                                             *)
(***************************************************************************)
Kinds(s) == [i \in 1..Len(s) |-> s[i].k]

Fields(d) == UNION {{d[i].fields[j] : j \in 1..Len(d[i].fields)} : i \in 1..Len(d)}

DocNames(d) == [i \in 1..Len(d) |-> [j \in 1..Len(d[i].fields) |-> d[i].fields[j].name]]

RECURSIVE StanzaNames(_, _)
StanzaNames(sh, cur) ==
    IF sh = <<>> THEN (IF cur = <<>> THEN <<>> ELSE <<cur>>)
    ELSE IF Head(sh).blank > 0
    THEN <<Append(cur, <<Head(sh).key>>)>> \o StanzaNames(Tail(sh), <<>>)
    ELSE StanzaNames(Tail(sh), Append(cur, <<Head(sh).key>>))

RECURSIVE ConcatAll(_)
ConcatAll(ss) == IF ss = <<>> THEN <<>> ELSE Head(ss) \o ConcatAll(Tail(ss))

IsKey(tok) == tok.k = "KEY"

KeyTexts(s) == [i \in 1..Len(SelectSeq(s, IsKey)) |-> SelectSeq(s, IsKey)[i].t]

Done1 == run = 1 /\ pc = "done"
Done2 == run = 2 /\ pc = "done"

\* C1: a sequence of well-formed stanzas separated by bare NEWLINE tokens
\* parses to Ok with one paragraph per stanza, in order, and in each paragraph
\* one field per KEY token, in order, named by the KEY token's text, with or
\* without a blank line after the last stanza.
C1_WellFormedStanzasParse ==
    (Done1 /\ shape # <<>>) =>
        /\ result.tag = "Ok"
        /\ DocNames(result.doc) = StanzaNames(shape, <<>>)
        /\ ConcatAll(DocNames(result.doc)) = KeyTexts(lexed)

C1_Witness ==
    /\ Done1 /\ shape # <<>>
    /\ result.tag = "Ok"
    /\ Len(result.doc) = 2
    /\ shape[Len(shape)].blank = 0
    /\ shape[Len(shape)].conts > 0

\* C2: after a successful parse no field value ends with a newline character.
C2_NoTrailingNewline ==
    (pc = "done" /\ result.tag = "Ok") =>
        \A f \in Fields(result.doc) :
            f.value = <<>> \/ f.value[Len(f.value)] # "\n"

\* C3: the parse never panics: the popped character of the trailing-newline
\* trim is always the newline.
C3_NeverPanics == result.tag # "Panic"

\* The input ends inside the first line of a field that is the first thing
\* after any blank lines: after the KEY, after the COLON, or after the VALUE.
OpenFieldAtEof ==
    \E i \in 1..Len(lexed) :
        /\ \A j \in 1..(i - 1) : lexed[j].k = "NEWLINE"
        /\ lexed[i].k = "KEY"
        /\ Kinds(Drop(lexed, i)) \in {<<>>, <<"COLON">>, <<"COLON", "VALUE">>,
                                      <<"COLON", "WHITESPACE", "VALUE">>}

\* C4: when the token stream ends before the first line of an open field is
\* terminated, the parse fails with UnexpectedEof.
C4_TruncatedFieldIsEof ==
    (Done1 /\ OpenFieldAtEof) => result = UnexpectedEof

\* C5: UnexpectedToken carries the kind and the text of the offending token,
\* the token the cursor stopped at.
C5_ErrorCarriesOffendingToken ==
    (pc = "done" /\ result.tag = "Err" /\ result.error = "UnexpectedToken") =>
        \E i \in {pos, pos + 1} \cap (1..Len(lexed)) :
            lexed[i] = Tok(result.k, result.t)

C6_Step ==
    /\ (pc = "top" /\ Peek.k \in {"COLON", "VALUE", "ERROR", "INDENT"}) =>
           (pc' = "done" /\ result' = UnexpectedToken(Peek.k, Peek.t))
    /\ (pc = "colon" /\ Peek.k \notin {"COLON", "None"}) =>
           (pc' = "done" /\ result' = UnexpectedToken(Peek.k, Peek.t))
    /\ (pc = "colon" /\ Peek = None) =>
           (pc' = "done" /\ result' = UnexpectedEof)

\* C6: awaiting a field, a COLON, VALUE, ERROR or INDENT token fails the parse
\* with UnexpectedToken for that token; after a KEY any token but COLON fails
\* it with UnexpectedToken for that token, and the end of input with
\* UnexpectedEof; the result is the error alone, without any document.
C6_ForbiddenTokenFails == [][C6_Step]_vars

C6_Witness ==
    /\ Done1
    /\ result = UnexpectedToken("VALUE", <<"x">>)
    /\ paragraphs # <<>>

CommentFree(s) == \A i \in 1..Len(s) : s[i].k # "COMMENT"

\* C7: a comment line inside a continuation block, or a COMMENT token on an
\* indented line, leaves the parse successful with the document of the input
\* without the comment line.
C7_ContinuationCommentDropped ==
    (Done2 /\ variant \in {"between", "indented"}) =>
        /\ result.tag = "Ok"
        /\ result = first.result

\* C8: a top-level comment line before the first stanza, between two stanzas,
\* between two fields of a stanza or at the end of input (with or without its
\* NEWLINE) does not change the parse result.
C8_TopLevelCommentIgnored ==
    (Done2 /\ variant \in {"top", "top_eof"}) =>
        /\ result.tag = "Ok"
        /\ result = first.result

C8_Witness ==
    /\ Done2 /\ variant = "top"
    /\ result.tag = "Ok"
    /\ Len(result.doc) = 1
    /\ Len(result.doc[1].fields) = 2
    /\ \E i \in 2..(Len(lexed) - 2) :
          /\ lexed[i].k = "COMMENT"
          /\ lexed[i + 1].k = "NEWLINE"
          /\ lexed[i + 2].k = "KEY"

SingleLine(d) == \A f \in Fields(d) : \A i \in 1..Len(f.value) : f.value[i] # "\n"

\* C9: a parsed document without embedded newlines in its values, serialized
\* and parsed again, yields an equal document.
C9_RoundTrip ==
    (Done2 /\ variant = "roundtrip" /\ SingleLine(first.result.doc)) =>
        result = first.result

RECURSIVE FieldLines(_)
FieldLines(fs) ==
    IF fs = <<>> THEN <<>>
    ELSE Head(fs).name \o <<":", " ">> \o Head(fs).value \o <<"\n">>
         \o FieldLines(Tail(fs))

RECURSIVE OneBlankBetween(_, _)
OneBlankBetween(ps, i) ==
    IF i > Len(ps) THEN <<>>
    ELSE (IF i > 1 THEN <<"\n">> ELSE <<>>)
         \o FieldLines(ps[i].fields)
         \o OneBlankBetween(ps, i + 1)

\* C10: the serialized text is one "Name: Value" line per field on consecutive
\* lines, with exactly one blank line between consecutive paragraphs and none
\* between two fields of a paragraph.
C10_SerializedLayout ==
    (variant = "roundtrip" /\ SingleLine(first.result.doc)) =>
        text = OneBlankBetween(first.result.doc, 1)

NonEmptyParagraphs(d) == \A i \in 1..Len(d) : d[i].fields # <<>>

\* C11: every paragraph built or returned by the parse has at least one
\* field: runs of bare NEWLINE tokens before, between or after stanzas never
\* produce an empty paragraph.
C11_NoEmptyParagraph ==
    /\ NonEmptyParagraphs(paragraphs)
    /\ result.tag = "Ok" => NonEmptyParagraphs(result.doc)

C11_Witness ==
    /\ Done1
    /\ result.tag = "Ok"
    /\ Len(result.doc) = 1
    /\ lexed[1].k = "NEWLINE"
    /\ lexed[2].k = "NEWLINE"
    /\ lexed[Len(lexed)].k = "NEWLINE"

RECURSIVE ContValue(_, _)
ContValue(j, n) ==
    IF j > n THEN <<>> ELSE <<"\n">> \o ContText(j) \o ContValue(j + 1, n)

DocValues(d) ==
    ConcatAll([i \in 1..Len(d) |->
                  [j \in 1..Len(d[i].fields) |-> d[i].fields[j].value]])

PcRank(p) ==
    CASE p = "done" -> 0
      [] p = "top" -> 1
      [] p = "trim" -> 2
      [] p = "colon" -> 2
      [] p = "comment" -> 2
      [] p = "cont" -> 3
      [] p = "line" -> 4
      [] p = "first" -> 4
      [] p = "ws" -> 5

Rank == 6 * (Len(lexed) - pos) + PcRank(pc)

C14_Step ==
    (run' = run /\ pc # "done") =>
        /\ pos' \in {pos, pos + 1}
        /\ pos' <= Len(lexed)
        /\ pos' = pos + 1 \/ pc' # pc
        /\ Rank' < Rank
        /\ (pc' = "done" /\ result'.tag = "Ok") => pos' = Len(lexed)

\* C14: every step of the parse consumes one token or leaves its loop, the
\* cursor never moves backwards nor past the end, a measure bounded by the
\* input length decreases at every step (so the parse terminates), and a
\* successful parse has consumed every token.
C14_ParseTerminates == [][C14_Step]_vars

C14_Witness ==
    /\ Done1 /\ shape # <<>>
    /\ result.tag = "Ok"
    /\ pos = Len(lexed)
    /\ Len(shape) = 2
    /\ shape[1].conts >= 1
    /\ shape[2].blank >= 1

IsValue(tok) == tok.k = "VALUE"

ValueTexts(s) ==
    ConcatAll([i \in 1..Len(SelectSeq(s, IsValue)) |-> SelectSeq(s, IsValue)[i].t])

\* Tokens 1..n are KEY, COLON, WHITESPACE tokens and then nv VALUE tokens.
FirstLinePrefix(n, nv) ==
    /\ n >= 2 /\ nv >= 0 /\ n - nv >= 2
    /\ n <= Len(lexed)
    /\ lexed[1].k = "KEY"
    /\ lexed[2].k = "COLON"
    /\ \A j \in 3..(n - nv) : lexed[j].k = "WHITESPACE"
    /\ \A j \in (n - nv + 1)..n : lexed[j].k = "VALUE"

\* C15: on the first line the WHITESPACE tokens after the colon are skipped
\* and the texts of all VALUE tokens up to the NEWLINE are concatenated into
\* the value; any other token in that position fails with UnexpectedToken.
C15_FirstLineAccumulates ==
    Done1 =>
        \A n \in 2..(Len(lexed) - 1) : \A nv \in 0..(n - 2) :
            FirstLinePrefix(n, nv) =>
                /\ (n + 1 = Len(lexed) /\ lexed[n + 1].k = "NEWLINE") =>
                       result = Ok(<<Paragraph(<<Field(lexed[1].t,
                                        ValueTexts(SubSeq(lexed, 1, n)))>>)>>)
                /\ (lexed[n + 1].k \in {"COMMENT", "KEY", "INDENT", "COLON", "ERROR"}
                        \/ (lexed[n + 1].k = "WHITESPACE" /\ nv > 0)) =>
                       result = UnexpectedToken(lexed[n + 1].k, lexed[n + 1].t)

Matches(p, name) == {j \in 1..Len(p.fields) : p.fields[j].name = name}

\* C13: duplicate names are kept as distinct fields in encounter order by the
\* parse and by insert, which appends the new field and leaves the existing
\* ones unchanged; get returns the value of the first field whose name equals
\* the queried name exactly, and nothing when no field has that name.
C13_DuplicatesAndLookup ==
    /\ (Done1 /\ shape # <<>>) =>
           /\ result.tag = "Ok"
           /\ ConcatAll(DocNames(result.doc)) = [i \in 1..Len(shape) |-> <<shape[i].key>>]
    /\ op.kind = "insert" =>
           /\ Len(para.fields) = Len(op.before.fields) + 1
           /\ SubSeq(para.fields, 1, Len(op.before.fields)) = op.before.fields
           /\ para.fields[Len(para.fields)] = Field(op.name, op.value)
    /\ op.kind = "get" =>
           IF Matches(op.on, op.name) = {} THEN op.ret = Absent
           ELSE \E j \in Matches(op.on, op.name) :
                   /\ \A k \in Matches(op.on, op.name) : j <= k
                   /\ op.ret = Some(op.on.fields[j].value)

C13_Witness ==
    /\ op.kind = "get"
    /\ op.name = <<"A">>
    /\ Len(op.on.fields) = 3
    /\ Cardinality(Matches(op.on, op.name)) = 3
    /\ op.on.fields[1].value # op.on.fields[2].value
    /\ op.on.fields[3].value = <<"w">>
    /\ op.ret = Some(op.on.fields[1].value)

====
